---------------------------- MODULE Spec2Model ----------------------------
(***************************************************************************)
(* lang-gap: the rate-limited OpenRouter client (client.py), the           *)
(* orchestrator (runner.py) and the answer verifier (evaluator.py).        *)
(*                                                                         *)
(* A task is one coroutine: either a bare client.complete call or one      *)
(* evaluate_single task created by run.  asyncio runs one coroutine at a   *)
(* time and switches only at an await that really suspends, so every       *)
(* action below is the code a coroutine runs between two suspensions.      *)
(***************************************************************************)
EXTENDS Integers, Sequences, FiniteSets, TLC

VARIABLES
    tasks,        \* the coroutines: position, locals and return value of each
    semaphores,   \* OpenRouterClient._semaphores: model id -> free permits
    http_client,  \* OpenRouterClient._client: "none", "open" or "closed"
    ec,           \* one evaluate_coding call: its arguments, position and result
    run,          \* one call of run: its arguments, position, locals and result
    fn            \* one call of a function without state: its arguments and result

vars == <<tasks, semaphores, http_client, ec, run, fn>>

----------------------------------------------------------------------------
(* config.py *)

MAX_CONCURRENT_PER_MODEL == 5
MAX_RETRIES == 3

(* Bounds of the model. *)
ExtraCalls == 1     \* complete calls on model "m1" beyond the cap
MaxDur == 2         \* an attempt's request takes 1..MaxDur time units
MaxCases == 2       \* a coding question has 0..MaxCases test cases
MaxLines == 2       \* a process prints 0..MaxLines lines
MaxTasks == 4       \* a run makes at most MaxTasks tasks
MaxText == 2        \* a candidate answer has at most MaxText characters
MaxBlocks == 2      \* a response has 1..MaxBlocks fenced blocks
MaxPieces == 3       \* a reasoning response has at most MaxPieces pieces
StderrSpan == 50     \* error streams are within StderrSpan characters of STDERR_LIMIT
MaxLiveTasks == 2    \* a run checked for progress makes at most MaxLiveTasks tasks

None == "none"

(* a call of a function without state: pc is "called", then "returned" *)
Fn(name, args) == [name |-> name, args |-> args, pc |-> "called", ret |-> <<>>]
NoFn == [name |-> None, args |-> <<>>, pc |-> None, ret |-> <<>>]

----------------------------------------------------------------------------
(* The transport: what one client.post can come back with. *)

(* label names the case for the properties; the code reads status_code and data. *)
HttpResponse(status, data, label, content) ==
    [raised |-> None, status_code |-> status, data |-> data,
     label |-> label, content |-> content]
PostRaises(exc) ==
    [raised |-> exc, status_code |-> 0, data |-> [error |-> "x"],
     label |-> exc, content |-> None]

Ok200(content, tokens) ==
    HttpResponse(200,
                 [choices |-> <<[message |-> [content |-> content]]>>,
                  usage |-> [total_tokens |-> tokens]],
                 "ok", content)
Ok200NoUsage(content) ==
    HttpResponse(200, [choices |-> <<[message |-> [content |-> content]]>>],
                 "ok", content)
(* a JSON object without "choices", and one whose message has no "content" *)
NoChoicesKey == HttpResponse(200, [error |-> "x"], "missing_key", None)
NoContentKey ==
    HttpResponse(200, [choices |-> <<[message |-> [role |-> "assistant"]]>>],
                 "missing_key", None)
(* "choices": [] *)
EmptyChoices == HttpResponse(200, [choices |-> <<>>], "empty_choices", None)
(* a body that is not JSON *)
NotJson == HttpResponse(200, [not_json |-> TRUE], "not_json", None)
Status(code) == HttpResponse(code, [error |-> "x"], "status", None)

(* Every way one attempt can end. *)
AllOutcomes(contents) ==
    {Ok200(c, 7) : c \in contents} \cup {Ok200NoUsage(c) : c \in contents}
    \cup {NoChoicesKey, NoContentKey, EmptyChoices, NotJson}
    \cup {Status(code) : code \in {400, 404, 429, 500, 503}}
    \cup {PostRaises("ReadTimeout"), PostRaises("ConnectError")}

----------------------------------------------------------------------------
(* client.py: OpenRouterClient *)

(* complete, line 53: the gate a call for model_id goes through. *)
SemKeyShared(model_id) == "shared"
SemKey(model_id) == model_id

(* __init__, lines 33-35: the defaultdict makes a gate of MAX_CONCURRENT_PER_MODEL
   permits the first time a model id is looked up. *)
Lookup(sems, key) ==
    IF key \in DOMAIN sems THEN sems ELSE sems @@ (key :> MAX_CONCURRENT_PER_MODEL)

(* asyncio.Semaphore: acquire goes through only while a permit is free. *)
GateOpenAlways(permits) == TRUE
GateOpen(permits) == permits > 0

(* _get_client, lines 38-49 *)
MakesClientAlways(c) == TRUE
MakesClient(c) == c = None \/ c = "closed"                         \* line 39
GetClient(c) == IF MakesClient(c) THEN "open" ELSE c

(* _complete_with_retry, line 95: the exceptions the retry loop catches. *)
RetriedExceptions == {"HTTPStatusError", "ReadTimeout", "KeyError"}

(* line 74 *)
RetryStatus(status) == status = 429 \/ status >= 500

(* lines 82-87: raise_for_status, resp.json(), then the fields read from the
   body.  A missing key raises KeyError, an empty "choices" list IndexError. *)
ReadBody(out) ==
    IF ~(out.status_code >= 200 /\ out.status_code < 300)
    THEN [exc |-> "HTTPStatusError"]
    ELSE LET data == out.data IN
         IF "not_json" \in DOMAIN data THEN [exc |-> "JSONDecodeError"]
         ELSE IF "choices" \notin DOMAIN data THEN [exc |-> "KeyError"]
         ELSE IF Len(data.choices) = 0 THEN [exc |-> "IndexError"]
         ELSE IF "message" \notin DOMAIN data.choices[1] THEN [exc |-> "KeyError"]
         ELSE IF "content" \notin DOMAIN data.choices[1].message THEN [exc |-> "KeyError"]
         ELSE [exc |-> None,
               content |-> data.choices[1].message.content,
               tokens |-> IF "usage" \in DOMAIN data
                             /\ "total_tokens" \in DOMAIN data.usage
                          THEN data.usage.total_tokens ELSE 0]

(* lines 70-98: what one attempt that came back with `out` does next:
   return a CompletionResponse, go to the backoff sleep, or let the
   exception leave the loop. *)
Error(type, status) == [type |-> type, status |-> status]

AttemptResult(out) ==
    IF out.raised # None
    THEN IF out.raised \in RetriedExceptions
         THEN [kind |-> "retry", error |-> Error(out.raised, 0)]
         ELSE [kind |-> "propagate", error |-> Error(out.raised, 0)]
    ELSE IF RetryStatus(out.status_code)
    THEN [kind |-> "retry", error |-> Error("RuntimeError", out.status_code)]
    ELSE LET body == ReadBody(out) IN
         IF body.exc = None
         THEN [kind |-> "return", content |-> body.content, tokens |-> body.tokens]
         ELSE IF body.exc \in RetriedExceptions
         THEN [kind |-> "retry", error |-> Error(body.exc, out.status_code)]
         ELSE [kind |-> "propagate", error |-> Error(body.exc, out.status_code)]

(* line 68: for attempt in range(MAX_RETRIES) *)
MoreAttemptsOffByOne(attempt) == attempt <= MAX_RETRIES
MoreAttempts(attempt) == attempt < MAX_RETRIES

(* lines 78 and 97 *)
RECURSIVE Pow2(_)
Pow2(n) == IF n = 0 THEN 1 ELSE 2 * Pow2(n - 1)
BackoffLinear(attempt) == 2 * (attempt + 1)
Backoff(attempt) == Pow2(attempt + 1)

(* line 69: t0 is read at the start of every attempt (a t0 read once, before
   the loop, would be 0: the clock starts with the call). *)
AttemptStartKeep(t0, clock) == 0
AttemptStart(t0, clock) == clock

(* lines 89-93 *)
CompletionResponse(content, latency_ms, tokens_used) ==
    [content |-> content, latency_ms |-> latency_ms, tokens_used |-> tokens_used]

(* lines 100-102 *)
Exhausted(model_id, last_error) ==
    [type |-> "RuntimeError", attempts |-> MAX_RETRIES,
     model_id |-> model_id, last_error |-> last_error]

----------------------------------------------------------------------------
(* Text is a sequence of characters. *)

PASS_MARK == <<"P", "A", "S", "S", ":">>
FAIL_MARK == <<"F", "A", "I", "L", ":">>
CASE_ == <<" ", "c", "a", "s", "e", " ">>
GOT_ == <<":", " ", "g", "o", "t", " ">>
EXPECTED_ == <<",", " ", "e", "x", "p", "e", "c", "t", "e", "d", " ">>
EXCEPTION_ == <<":", " ", "e", "x", "c", "e", "p", "t", "i", "o", "n", " ", "b", "o", "o", "m">>
TIMED_OUT == <<"E", "x", "e", "c", "u", "t", "i", "o", "n", " ", "t", "i", "m", "e", "d", " ", "o", "u", "t", " ", "(", "1", "0", "s", ")">>
RUNTIME_ERROR == <<"R", "u", "n", "t", "i", "m", "e", " ", "e", "r", "r", "o", "r", ":", " ">>
NO_OUTPUT == <<"N", "o", " ", "t", "e", "s", "t", " ", "o", "u", "t", "p", "u", "t", " ", "d", "e", "t", "e", "c", "t", "e", "d", ".", " ", "s", "t", "d", "o", "u", "t", ":", " ">>
ELLIPSIS == <<".", ".", ".">>
SEMI == <<";", " ">>
NEWLINE == <<"\n">>
Digit(i) == <<(<<"0", "1", "2", "3", "4", "5", "6", "7", "8", "9">>)[i + 1]>>

(* Optional text: Python's None, or a str. *)
NoText == <<>>
Some(text) == <<text>>

IsSpace(c) == c \in {" ", "\n", "\t"}

RECURSIVE LStrip(_)
LStrip(s) == IF s # <<>> /\ IsSpace(Head(s)) THEN LStrip(Tail(s)) ELSE s
RECURSIVE RStrip(_)
RStrip(s) ==
    IF s # <<>> /\ IsSpace(s[Len(s)]) THEN RStrip(SubSeq(s, 1, Len(s) - 1)) ELSE s
(* str.strip() *)
Strip(s) == RStrip(LStrip(s))

(* s[:n] *)
Take(s, n) == SubSeq(s, 1, IF Len(s) < n THEN Len(s) ELSE n)

(* str.startswith *)
StartsWith(s, prefix) ==
    Len(s) >= Len(prefix) /\ SubSeq(s, 1, Len(prefix)) = prefix

FirstNewline(s) ==
    IF \E i \in 1..Len(s) : s[i] = "\n"
    THEN CHOOSE i \in 1..Len(s) : s[i] = "\n" /\ \A j \in 1..(i - 1) : s[j] # "\n"
    ELSE 0
(* str.splitlines() *)
RECURSIVE SplitLines(_)
SplitLines(s) ==
    IF s = <<>> THEN <<>>
    ELSE LET i == FirstNewline(s)
         IN  IF i = 0 THEN <<s>>
             ELSE <<SubSeq(s, 1, i - 1)>> \o SplitLines(SubSeq(s, i + 1, Len(s)))

(* sep.join(parts) *)
RECURSIVE Join(_, _)
Join(parts, sep) ==
    IF parts = <<>> THEN <<>>
    ELSE IF Len(parts) = 1 THEN parts[1]
    ELSE parts[1] \o sep \o Join(Tail(parts), sep)

----------------------------------------------------------------------------
(* evaluator.py *)

STDERR_LIMIT == 500
STDOUT_LIMIT == 200

(* subprocess.run: what the child process came back with.  kinds names what
   each printed line is, for the properties; the code reads the text. *)
Process(timed_out, returncode, stdout, stderr, kinds) ==
    [timed_out |-> timed_out, returncode |-> returncode,
     stdout |-> stdout, stderr |-> stderr, kinds |-> kinds]

(* _build_test_harness, lines 62-83: the candidate's code followed by one
   check block per test case, numbered from 0 *)
BuildTestHarness(code, function_name, test_cases) ==
    [code |-> code,
     checks |-> [i \in 1..Len(test_cases) |->
                    [index |-> i - 1, input |-> test_cases[i].input,
                     expected |-> test_cases[i].expected]]]

(* lines 70-80 of the generated script: what check block `check` prints when
   the candidate is the function `f` (an argument maps to the value returned,
   or to "raise") *)
CheckOutputNoCompare(f, check) ==
    IF f[check.input].raises
    THEN [kind |-> "fail",
          line |-> FAIL_MARK \o CASE_ \o Digit(check.index) \o EXCEPTION_]
    ELSE [kind |-> "pass", line |-> PASS_MARK \o CASE_ \o Digit(check.index)]
CheckOutput(f, check) ==
    LET result == f[check.input] IN
    IF result.raises
    THEN [kind |-> "fail",
          line |-> FAIL_MARK \o CASE_ \o Digit(check.index) \o EXCEPTION_]
    ELSE IF result.value = check.expected
    THEN [kind |-> "pass", line |-> PASS_MARK \o CASE_ \o Digit(check.index)]
    ELSE [kind |-> "fail",
          line |-> FAIL_MARK \o CASE_ \o Digit(check.index) \o GOT_
                   \o Digit(result.value) \o EXPECTED_ \o Digit(check.expected)]

(* print: each line and a newline *)
RECURSIVE Printed(_)
Printed(lines) ==
    IF lines = <<>> THEN <<>> ELSE Head(lines) \o NEWLINE \o Printed(Tail(lines))

(* the process that runs the harness of a well-formed candidate: the code
   defines the function and does nothing else, every block prints its line,
   the script ends with status 0 *)
Execute(harness) ==
    LET out == [i \in 1..Len(harness.checks) |->
                    CheckOutput(harness.code.f, harness.checks[i])]
    IN  Process(FALSE, 0, Printed([i \in 1..Len(out) |-> out[i].line]), <<>>,
                [i \in 1..Len(out) |-> out[i].kind])

(* lines 38-43 *)
Truncate(stderr) ==
    IF Len(stderr) > STDERR_LIMIT THEN Take(stderr, STDERR_LIMIT) \o ELLIPSIS ELSE stderr

(* line 56 *)
NoPass(lines) == ~\E i \in 1..Len(lines) : StartsWith(lines[i], PASS_MARK)

(* lines 48-51 *)
FailuresNone(lines) == <<>>
Failures(lines) == SelectSeq(lines, LAMBDA line : StartsWith(line, FAIL_MARK))

Verdict(passed, error) == [passed |-> passed, error |-> error]

(* evaluate_coding, lines 33-59: the verdict on what subprocess.run gave *)
Judge(result) ==
    IF result.timed_out THEN Verdict(FALSE, Some(TIMED_OUT))            \* 33-34
    ELSE IF result.returncode # 0
    THEN Verdict(FALSE, Some(RUNTIME_ERROR \o Truncate(Strip(result.stderr))))
    ELSE LET stdout == Strip(result.stdout)
             lines == SplitLines(stdout)
             failures == Failures(lines)
         IN  IF failures # <<>> THEN Verdict(FALSE, Some(Join(failures, SEMI)))
             ELSE IF NoPass(lines)
             THEN Verdict(FALSE, Some(NO_OUTPUT \o Take(stdout, STDOUT_LIMIT)))
             ELSE Verdict(TRUE, NoText)

(* str.lower() and re.IGNORECASE, on the letters A-Z *)
UPPER == <<"A", "B", "C", "D", "E", "F", "G", "H", "I", "J", "K", "L", "M", "N", "O", "P", "Q", "R", "S", "T", "U", "V", "W", "X", "Y", "Z">>
LOWER == <<"a", "b", "c", "d", "e", "f", "g", "h", "i", "j", "k", "l", "m", "n", "o", "p", "q", "r", "s", "t", "u", "v", "w", "x", "y", "z">>
Lower(c) ==
    IF \E i \in 1..Len(UPPER) : UPPER[i] = c
    THEN LOWER[CHOOSE i \in 1..Len(UPPER) : UPPER[i] = c]
    ELSE c
LowerText(s) == [i \in 1..Len(s) |-> Lower(s[i])]

(* evaluate_reasoning, lines 86-105.  A float is kept as a whole number of
   hundredths; the texts of the model carry at most two decimals and no
   exponent, underscore, inf or nan. *)
SCALE_DIGITS == 2
REL_TOL_INV == 1000000000          \* math.isclose: rel_tol = 1e-09

DigitValue(c) == CHOOSE d \in 0..9 : Digit(d) = <<c>>
RECURSIVE DigitsValue(_)
DigitsValue(s) ==
    IF s = <<>> THEN 0
    ELSE 10 * DigitsValue(SubSeq(s, 1, Len(s) - 1)) + DigitValue(s[Len(s)])

RECURSIVE PadRight(_, _)
PadRight(s, n) == IF Len(s) >= n THEN s ELSE PadRight(s \o <<"0">>, n)

(* float(text), lines 97-98: ok = FALSE stands for ValueError *)
ParseFloat(text) ==
    LET signed == text # <<>> /\ text[1] \in {"+", "-"}
        body == IF signed THEN Tail(text) ELSE text
        dots == {i \in 1..Len(body) : body[i] = "."}
        dot == IF dots = {} THEN 0 ELSE CHOOSE i \in dots : \A j \in dots : i <= j
        whole == IF dot = 0 THEN body ELSE SubSeq(body, 1, dot - 1)
        frac == IF dot = 0 THEN <<>> ELSE SubSeq(body, dot + 1, Len(body))
        ok == /\ \A i \in 1..Len(whole) : whole[i] \in {Digit(d)[1] : d \in 0..9}
              /\ \A i \in 1..Len(frac) : frac[i] \in {Digit(d)[1] : d \in 0..9}
              /\ Len(whole) + Len(frac) >= 1
              /\ Len(frac) <= SCALE_DIGITS
        value == DigitsValue(whole \o PadRight(frac, SCALE_DIGITS))
    IN  IF ok THEN [ok |-> TRUE, value |-> IF signed /\ text[1] = "-" THEN 0 - value ELSE value]
        ELSE [ok |-> FALSE, value |-> 0]

Abs(x) == IF x < 0 THEN 0 - x ELSE x
Max(x, y) == IF x >= y THEN x ELSE y

(* math.isclose(a, b, abs_tol=abs_tol), line 100: the relative tolerance
   keeps its default *)
IsClose(a, b, abs_tol) ==
    a = b \/ Abs(a - b) <= Max(Max(Abs(a), Abs(b)) \div REL_TOL_INV, abs_tol)

(* tolerance is none (<<>>) or a float (<<hundredths>>) *)
evaluate_reasoning(extracted, expected, tolerance) ==
    LET extracted_norm == LowerText(Strip(extracted))
        expected_norm == LowerText(Strip(expected))
        e_val == ParseFloat(extracted_norm)
        x_val == ParseFloat(expected_norm)
        tol == IF tolerance # <<>> THEN tolerance[1] ELSE 0
    IN  IF extracted_norm = expected_norm THEN TRUE
        ELSE IF e_val.ok /\ x_val.ok
        THEN IF tol < 0 THEN FALSE       \* isclose raises ValueError, caught at 101
             ELSE IsClose(e_val.value, x_val.value, tol)
        ELSE FALSE

----------------------------------------------------------------------------
(* extractor.py *)

(* the backquote character, written by name *)
BACKQUOTE == "backquote"
FENCE == <<BACKQUOTE, BACKQUOTE, BACKQUOTE>>
PYTHON == <<"p", "y", "t", "h", "o", "n">>
PY == <<"p", "y">>
DEF_ == <<"d", "e", "f", " ">>
ANSWER_TAG == <<"A", "N", "S", "W", "E", "R", ":">>
DIGITS == {"0", "1", "2", "3", "4", "5", "6", "7", "8", "9"}

(* the pattern occurs in s at position i *)
MatchAt(s, pat, i) ==
    i >= 1 /\ i + Len(pat) - 1 <= Len(s) /\ SubSeq(s, i, i + Len(pat) - 1) = pat

(* the first position from 'from' on where pat occurs in s, or 0 *)
Find(s, pat, from) ==
    LET at == {i \in from..Len(s) : MatchAt(s, pat, i)}
    IN  IF at = {} THEN 0 ELSE CHOOSE i \in at : \A j \in at : i <= j

(* pat in s *)
Contains(s, pat) == Find(s, pat, 1) # 0

(* the first position from j on that holds no whitespace (Len(s) + 1 if none) *)
WsEnd(s, j) ==
    LET rest == {i \in j..Len(s) : ~IsSpace(s[i])}
    IN  IF rest = {} THEN Len(s) + 1 ELSE CHOOSE i \in rest : \A k \in rest : i <= k

(* the last position in a..b that satisfies the test, or 0 *)
LastNewlineIn(s, a, b) ==
    LET at == {i \in a..b : s[i] = "\n"}
    IN  IF at = {} THEN 0 ELSE CHOOSE i \in at : \A k \in at : i >= k

(* line 15: one match of FENCE(?:python|py)\s*\n(.*?)FENCE starting at i: the
   body and the position after the closing fence; next = 0 when there is no
   match at i *)
FencedBlockAt(s, i) ==
    LET tag == IF MatchAt(s, FENCE \o PYTHON, i) THEN i + Len(FENCE \o PYTHON)
               ELSE IF MatchAt(s, FENCE \o PY, i) THEN i + Len(FENCE \o PY)
               ELSE 0
        nl == IF tag = 0 THEN 0 ELSE LastNewlineIn(s, tag, WsEnd(s, tag) - 1)
        close == IF nl = 0 THEN 0 ELSE Find(s, FENCE, nl + 1)
    IN  IF close = 0 THEN [body |-> <<>>, next |-> 0]
        ELSE [body |-> SubSeq(s, nl + 1, close - 1), next |-> close + Len(FENCE)]

(* lines 14-16: re.findall of the fenced blocks, from position i on *)
RECURSIVE FencedBlocks(_, _)
FencedBlocks(s, i) ==
    IF i > Len(s) THEN <<>>
    ELSE LET m == FencedBlockAt(s, i)
         IN  IF m.next = 0 THEN FencedBlocks(s, i + 1)
             ELSE <<m.body>> \o FencedBlocks(s, m.next)

(* line 27, (?:[ \t]+.+\n)*: the end of the indented lines that follow
   position e (the newline that ends the previous line) *)
RECURSIVE IndentedEnd(_, _)
IndentedEnd(s, e) ==
    LET nl == Find(s, NEWLINE, e + 1)
    IN  IF nl # 0 /\ nl - e >= 3 /\ s[e + 1] \in {" ", "\t"}
        THEN IndentedEnd(s, nl) ELSE e

(* lines 27-30: re.search of def <function_name>\(.*\n(?:[ \t]+.+\n)* *)
RawDefinition(s, function_name) ==
    LET head == DEF_ \o function_name \o <<"(">>
        at == {i \in 1..Len(s) : MatchAt(s, head, i) /\ Find(s, NEWLINE, i + Len(head)) # 0}
    IN  IF at = {} THEN NoText
        ELSE LET i == CHOOSE k \in at : \A j \in at : k <= j
                 e == Find(s, NEWLINE, i + Len(head))
             IN  Some(Strip(SubSeq(s, i, IndentedEnd(s, e))))

(* extract_code, lines 6-32 *)
extract_code(response, function_name) ==
    LET blocks == FencedBlocks(response, 1)
        with == {i \in 1..Len(blocks) : Contains(blocks[i], DEF_ \o function_name)}
    IN  IF blocks # <<>>
        THEN IF with # {}
             THEN Some(Strip(blocks[CHOOSE i \in with : \A j \in with : i <= j]))
             ELSE Some(Strip(blocks[1]))
        ELSE RawDefinition(response, function_name)

(* the end of the line that holds position k *)
LineEnd(s, k) ==
    LET nl == Find(s, NEWLINE, k) IN IF nl = 0 THEN Len(s) ELSE nl - 1

(* lines 42-44: one match of ANSWER:\s*(.+?)$ starting at i: the group and
   the position after the match; next = 0 when there is no match at i *)
AnswerAt(s, i) ==
    IF ~(/\ i + Len(ANSWER_TAG) - 1 <= Len(s)
         /\ LowerText(SubSeq(s, i, i + Len(ANSWER_TAG) - 1)) = LowerText(ANSWER_TAG))
    THEN [group |-> <<>>, next |-> 0]
    ELSE LET j == i + Len(ANSWER_TAG)
             k == WsEnd(s, j)
             back == {q \in j..(k - 1) : s[q] # "\n"}
         IN  IF k <= Len(s)
             THEN [group |-> SubSeq(s, k, LineEnd(s, k)), next |-> LineEnd(s, k) + 1]
             ELSE IF back # {}
             THEN LET q == CHOOSE x \in back : \A y \in back : x >= y
                  IN  [group |-> <<s[q]>>, next |-> q + 1]
             ELSE [group |-> <<>>, next |-> 0]

RECURSIVE AnswerMatches(_, _)
AnswerMatches(s, i) ==
    IF i > Len(s) THEN <<>>
    ELSE LET m == AnswerAt(s, i)
         IN  IF m.next = 0 THEN AnswerMatches(s, i + 1)
             ELSE <<m.group>> \o AnswerMatches(s, m.next)

(* the end of the run of digits that starts at i (i - 1 if s[i] is no digit) *)
DigitsEnd(s, i) ==
    LET stop == {k \in i..Len(s) : s[k] \notin DIGITS}
    IN  IF stop = {} THEN Len(s) ELSE (CHOOSE k \in stop : \A x \in stop : k <= x) - 1

(* line 49: one match of -?\d+(?:\.\d+)? starting at i: its last position,
   0 when there is no match at i *)
NumberAt(s, i) ==
    LET d == IF s[i] = "-" THEN i + 1 ELSE i
        e == DigitsEnd(s, d)
    IN  IF d > Len(s) \/ e < d THEN 0
        ELSE IF e + 2 <= Len(s) /\ s[e + 1] = "." /\ s[e + 2] \in DIGITS
        THEN DigitsEnd(s, e + 2)
        ELSE e

RECURSIVE Numbers(_, _)
Numbers(s, i) ==
    IF i > Len(s) THEN <<>>
    ELSE LET e == NumberAt(s, i)
         IN  IF e = 0 THEN Numbers(s, i + 1)
             ELSE <<SubSeq(s, i, e)>> \o Numbers(s, e + 1)

(* extract_answer, lines 35-53 *)
extract_answer(response) ==
    LET matches == AnswerMatches(response, 1)
        numbers == Numbers(response, 1)
    IN  IF matches # <<>> THEN Some(Strip(matches[Len(matches)]))
        ELSE IF numbers # <<>> THEN Some(numbers[Len(numbers)])
        ELSE NoText

----------------------------------------------------------------------------
(* schemas.py and runner.py: questions, results, the frame of run *)

CodingQuestion(id, function_name, test_cases) ==
    [id |-> id, category |-> "coding", function_name |-> function_name,
     test_cases |-> test_cases]
ReasoningQuestion(id, expected_answer, tolerance) ==
    [id |-> id, category |-> "reasoning", expected_answer |-> expected_answer,
     tolerance |-> tolerance]

EvalResult(question_id, model, language, raw_response, extracted_answer, correct, error, latency_ms, tokens_used) ==
    [question_id |-> question_id, model |-> model, language |-> language,
     raw_response |-> raw_response, extracted_answer |-> extracted_answer,
     correct |-> correct, error |-> error,
     latency_ms |-> latency_ms, tokens_used |-> tokens_used]

RunResults(run_id, models, results) ==
    [run_id |-> run_id, models |-> models, results |-> results]

(* config.py, lines 13-20: the registry, in the order of the dict (its
   first two entries) *)
MODELS ==
    <<[name |-> "claude-opus-4.6", id |-> "anthropic/claude-opus-4-6"],
      [name |-> "claude-sonnet-4.6", id |-> "anthropic/claude-sonnet-4-6"]>>

(* a questions/ directory: its files in sorted order, one coding and one
   reasoning question *)
QUESTIONS_DIR ==
    <<[stem |-> "coding",
       items |-> <<CodingQuestion("c1", <<"f">>, <<[input |-> 0, expected |-> 0]>>)>>],
      [stem |-> "reasoning",
       items |-> <<ReasoningQuestion("r1", <<"4">>, <<>>)>>]>>

(* load_questions, lines 32-53; categories is none (<<>>) or a list, kept
   as <<set of names>> *)
RECURSIVE LoadFiles(_, _)
LoadFiles(files, categories) ==
    IF files = <<>> THEN <<>>
    ELSE LET path == Head(files)
             skip == /\ categories # <<>> /\ categories[1] # {}
                     /\ path.stem \notin categories[1]
         IN  (IF skip THEN <<>> ELSE path.items) \o LoadFiles(Tail(files), categories)
load_questions(categories) == LoadFiles(run.corpus, categories)

(* questions[:limit], line 150 *)
Slice(s, limit) ==
    IF limit >= 0 THEN Take(s, limit)
    ELSE Take(s, IF Len(s) + limit > 0 THEN Len(s) + limit ELSE 0)

(* lines 156-160; model_names is none (<<>>) or a list, kept as <<set of names>> *)
SelectModels(model_names) ==
    SelectSeq(MODELS, LAMBDA m : model_names = <<>> \/ m.name \in model_names[1])

(* run(model_names, categories, limit, dry_run).  pc is the state of the run:
     "Idle"         not called yet
     "Loading"      lines 148-171 are next
     "Dispatching"  lines 173-194 are next
     "Collecting"   in the as_completed loop, lines 196-199
     "Done"         returned (ret is <<>> for None, or <<RunResults>>)
     "Raised"       an exception left run
     "Closing"      an exception of a task is leaving the async with block,
                    in close (client.py 104-106)
   api_key is whether OPENROUTER_API_KEY is set; corpus is the questions/
   directory; completed is the queue of as_completed: the finished tasks not
   yet awaited; order, kept for the properties, is the tasks in the order
   they finished; client is whether OpenRouterClient() has been constructed. *)
Run(model_names, categories, limit, dry_run, api_key) ==
    [pc |-> "Idle", model_names |-> model_names, categories |-> categories,
     limit |-> limit, dry_run |-> dry_run, api_key |-> api_key,
     corpus |-> QUESTIONS_DIR, client |-> FALSE,
     questions |-> <<>>, selected_models |-> <<>>,
     completed |-> <<>>, results |-> <<>>, order |-> <<>>,
     ret |-> <<>>, saved |-> FALSE, exc |-> None]
NoRun == Run(<<>>, <<>>, <<>>, FALSE, TRUE)

----------------------------------------------------------------------------
(* evaluate_coding(code, question), step by step *)

EvaluateCoding(code, test_cases) ==
    [pc |-> "called", code |-> code, test_cases |-> test_cases,
     harness |-> <<>>, tmp_path |-> FALSE, result |-> <<>>, ret |-> <<>>]
NoCall == EvaluateCoding(<<>>, <<>>)

(* lines 18-24: the harness is built and written to a temporary file *)
WriteHarness ==
    /\ ec.pc = "called"
    /\ ec' = [ec EXCEPT !.pc = "written",
                        !.harness = <<BuildTestHarness(ec.code, "f", ec.test_cases)>>,
                        !.tmp_path = TRUE]
    /\ UNCHANGED <<tasks, semaphores, http_client, run, fn>>

(* The candidates.  A well-formed candidate defines the function and nothing
   else: called on an argument it returns a value or raises an exception.
   Of any other candidate (a syntax error, an endless loop, code that prints
   or exits on its own) only the process it makes is known. *)
Args == {0, 1}
Returns == {[raises |-> FALSE, value |-> v] : v \in {0, 1}}
           \cup {[raises |-> TRUE, value |-> 0]}
WellFormedCandidates == {[kind |-> "function", f |-> f] : f \in [Args -> Returns]}
OtherCandidate == [kind |-> "other", f |-> <<>>]

TestCase(input, expected) == [input |-> input, expected |-> expected]
TestCases ==
    UNION {[1..n -> {TestCase(a, e) : a \in Args, e \in {0, 1}}] : n \in 0..MaxCases}

(* what a process can print: marker lines, other text, empty lines *)
LineKinds == {"pass", "fail", "other", "blank"}
SampleLine(kind, i) ==
    CASE kind = "pass" -> PASS_MARK \o CASE_ \o Digit(i - 1)
      [] kind = "fail" -> FAIL_MARK \o CASE_ \o Digit(i - 1) \o EXCEPTION_
      [] kind = "other" -> <<"h", "e", "l", "l", "o">>
      [] kind = "blank" -> <<>>
SampleStdout(kinds) == Printed([i \in 1..Len(kinds) |-> SampleLine(kinds[i], i)])
SampleStderr == {<<>>, <<"T", "r", "a", "c", "e", "b", "a", "c", "k", ":", " ", "S", "y", "n", "t", "a", "x", "E", "r", "r", "o", "r">>}
AnyProcess ==
    {Process(TRUE, 0, <<>>, <<>>, <<>>)}
    \cup {Process(FALSE, rc, SampleStdout(kinds), err, kinds) :
            rc \in {0, 1}, err \in SampleStderr,
            kinds \in UNION {[1..n -> LineKinds] : n \in 0..MaxLines}}

ProcessOutcomes(harness) ==
    IF harness.code.kind = "function" THEN {Execute(harness)} ELSE AnyProcess

(* lines 35-36, the finally clause: tmp_path.unlink(missing_ok=True) runs on
   the normal exit of the try block and on the return of the except clause;
   whether the file exists afterwards *)
UnlinkKeep(tmp_path) == tmp_path
Unlink(tmp_path) == FALSE

(* lines 26-59: the child process ends with result (or is killed at the
   timeout), the file is unlinked, the verdict is returned *)
RunHarness ==
    /\ ec.pc = "written"
    /\ \E result \in ProcessOutcomes(ec.harness[1]) :
           ec' = [ec EXCEPT !.pc = "done", !.tmp_path = Unlink(@),
                            !.result = <<result>>, !.ret = <<Judge(result)>>]
    /\ UNCHANGED <<tasks, semaphores, http_client, run, fn>>

InitEval ==
    /\ ec \in {EvaluateCoding(code, tcs) : code \in WellFormedCandidates, tcs \in TestCases}
              \cup {EvaluateCoding(OtherCandidate, <<TestCase(0, 0)>>),
                    EvaluateCoding(OtherCandidate, <<TestCase(0, 0), TestCase(1, 1)>>)}
    /\ tasks = <<>>
    /\ semaphores = <<>>
    /\ http_client = None
    /\ run = NoRun
    /\ fn = NoFn

NextEval ==
    \/ WriteHarness
    \/ RunHarness

SpecEval == InitEval /\ [][NextEval]_vars

----------------------------------------------------------------------------
(* The coroutines.  pc is where a coroutine is suspended:
     "created"  not started yet
     "acquire"  client.py:54, waiting for a permit of its model's gate
     "post"     client.py:71, awaiting client.post of attempt `attempt`
     "sleep"    client.py:79/98, awaiting asyncio.sleep(2 ** (attempt + 1))
     "returned" / "raised"   complete is over (a bare call)
   now is time.monotonic() as the coroutine reads it, relative to the start
   of its call.  Kept for the properties, never read by the code: sent counts
   the requests handed to the transport, last_out and last_dur are the
   latest answer of the transport and the time it took, delays is the waits
   computed so far, each with the failure it came after, made_client is
   whether the _get_client of the call created the transport. *)

NewCall(model_id) ==
    [kind |-> "call", model_id |-> model_id,
     pc |-> "created", attempt |-> 0, last_error |-> None,
     t0 |-> None, now |-> 0, ret |-> None,
     sent |-> 0, last_dur |-> 0, delays |-> <<>>, made_client |-> FALSE,
     last_out |-> [label |-> None, status_code |-> 0, content |-> None]]

(* lines 68-71: the top of the loop body, up to the await of client.post *)
StartAttempt(task) ==
    [task EXCEPT !.pc = "post",
                 !.t0 = AttemptStart(task.t0, task.now),
                 !.sent = @ + 1]

(* lines 60-71: _complete_with_retry from its first line to the first post *)
EnterRetryLoop(task) ==
    StartAttempt([task EXCEPT !.attempt = 0, !.last_error = None])

(* the locals of a call that is over *)
Over(task, pc, ret) ==
    [task EXCEPT !.pc = pc, !.ret = ret, !.t0 = None, !.now = 0]

(* lines 71-98: client.post came back with `out` after `dur` time units *)
AfterPost(task, out, dur) ==
    LET now == task.now + dur
        latency_ms == now - task.t0                                \* line 72
        r == AttemptResult(out)
        t == [task EXCEPT !.now = now]
    IN  CASE r.kind = "return" ->
               Over(t, "returned", CompletionResponse(r.content, latency_ms, r.tokens))
          [] r.kind = "retry" ->
               [t EXCEPT !.pc = "sleep", !.last_error = r.error,                \* lines 78, 97
                         !.delays = Append(@, [cause |-> out.label,
                                               wait |-> Backoff(task.attempt)])]
          [] r.kind = "propagate" ->
               Over(t, "raised", r.error)

(* lines 79-80 and 98, then the loop header (68) and lines 100-102 *)
AfterSleep(task) ==
    LET t == [task EXCEPT !.now = @ + Backoff(task.attempt), !.attempt = @ + 1]
    IN  IF MoreAttempts(t.attempt)
        THEN StartAttempt(t)
        ELSE Over(t, "raised", Exhausted(task.model_id, task.last_error))

CompleteOver(task) == task.pc \in {"returned", "raised"}

(* line 54, leaving `async with sem`: the permit goes back on every way out *)
ReleaseOnReturn(sems, task) ==
    IF task.pc = "returned" THEN [sems EXCEPT ![SemKey(task.model_id)] = @ + 1] ELSE sems
Release(sems, task) ==
    [sems EXCEPT ![SemKey(task.model_id)] = @ + 1]

----------------------------------------------------------------------------
(* Actions *)

(* asyncio starts coroutines in the order they were created and wakes the
   waiters of a semaphore first come first served: among the coroutines of
   one model that are at `pc`, the one created first goes first. *)
Turn(t, pc) ==
    \A u \in DOMAIN tasks :
        (u < t /\ tasks[u].model_id = tasks[t].model_id) => tasks[u].pc # pc

(* complete, lines 53-55, from the call to the first suspension: the gate is
   looked up (and made), and either a permit is taken and the first request
   sent, or the coroutine waits at the gate. *)
Begin(t) ==
    /\ tasks[t].pc = "created"
    /\ Turn(t, "created")
    /\ LET key == SemKey(tasks[t].model_id)
           sems == Lookup(semaphores, key)
       IN  IF GateOpen(sems[key])
           THEN /\ semaphores' = [sems EXCEPT ![key] = @ - 1]
                /\ http_client' = GetClient(http_client)
                /\ tasks' = [tasks EXCEPT ![t] = [EnterRetryLoop(@) EXCEPT
                                                     !.made_client = MakesClient(http_client)]]
                /\ UNCHANGED <<ec, run, fn>>
           ELSE /\ semaphores' = sems
                /\ tasks' = [tasks EXCEPT ![t].pc = "acquire"]
                /\ UNCHANGED <<http_client, ec, run, fn>>

(* a waiting coroutine gets a permit *)
Acquire(t) ==
    /\ tasks[t].pc = "acquire"
    /\ Turn(t, "acquire")
    /\ LET key == SemKey(tasks[t].model_id)
       IN  /\ GateOpen(semaphores[key])
           /\ semaphores' = [semaphores EXCEPT ![key] = @ - 1]
    /\ http_client' = GetClient(http_client)
    /\ tasks' = [tasks EXCEPT ![t] = [EnterRetryLoop(@) EXCEPT
                                         !.made_client = MakesClient(http_client)]]
    /\ UNCHANGED <<ec, run, fn>>

Seen(task, out, dur) ==
    [task EXCEPT !.last_dur = dur,
                 !.last_out = [label |-> out.label, status_code |-> out.status_code,
                               content |-> out.content]]

(* the transport answers the pending request of t *)
Respond(t, out, dur) ==
    /\ tasks[t].pc = "post"
    /\ LET task == Seen(AfterPost(tasks[t], out, dur), out, dur)
       IN  /\ tasks' = [tasks EXCEPT ![t] = task]
           /\ semaphores' = IF CompleteOver(task) THEN Release(semaphores, task)
                            ELSE semaphores
    /\ UNCHANGED <<http_client, ec, run, fn>>

(* the backoff delay of t is over *)
Wake(t) ==
    /\ tasks[t].pc = "sleep"
    /\ LET task == AfterSleep(tasks[t])
       IN  /\ tasks' = [tasks EXCEPT ![t] = task]
           /\ semaphores' = IF CompleteOver(task) THEN Release(semaphores, task)
                            ELSE semaphores
    /\ UNCHANGED <<http_client, ec, run, fn>>

TaskIds == DOMAIN tasks

----------------------------------------------------------------------------
(* Concurrent complete calls on one client: MAX_CONCURRENT_PER_MODEL +
   ExtraCalls calls for "m1" and one call for "m2".  The transport answers
   200 or fails to connect; the first call can also be answered with 500. *)

GateCalls ==
    [i \in 1..(MAX_CONCURRENT_PER_MODEL + ExtraCalls) |-> NewCall("m1")]
    \o <<NewCall("m2")>>

GateOutcomes ==
    {Ok200("text", 7), PostRaises("ConnectError")}
GateFailures == {Status(500)}

(* the calls the transport may answer with HTTP 500 *)
FlakyCalls == {1}

InitGate ==
    /\ tasks = GateCalls
    /\ semaphores = <<>>
    /\ http_client = None
    /\ ec = NoCall
    /\ run = NoRun
    /\ fn = NoFn

NextGate ==
    \E t \in TaskIds :
        \/ Begin(t)
        \/ Acquire(t)
        \/ \E out \in GateOutcomes : Respond(t, out, 1)
        \/ /\ t \in FlakyCalls
           /\ \E out \in GateFailures : Respond(t, out, 1)
        \/ Wake(t)

SpecGate == InitGate /\ [][NextGate]_vars

----------------------------------------------------------------------------
(* One complete call against a transport that can answer an attempt in every
   way, each request taking 1..MaxDur time units. *)

RetryOutcomes == AllOutcomes({"text"})

InitRetry ==
    /\ tasks = <<NewCall("m1")>>
    /\ semaphores = <<>>
    /\ http_client = None
    /\ ec = NoCall
    /\ run = NoRun
    /\ fn = NoFn

NextRetry ==
    \E t \in TaskIds :
        \/ Begin(t)
        \/ \E out \in RetryOutcomes, dur \in 1..MaxDur : Respond(t, out, dur)
        \/ Wake(t)

SpecRetry == InitRetry /\ [][NextRetry]_vars

----------------------------------------------------------------------------
(* runner.py: evaluate_single and run *)

API_ERROR == <<"A", "P", "I", " ", "e", "r", "r", "o", "r", ":", " ">>
NO_CODE == <<"C", "o", "u", "l", "d", " ", "n", "o", "t", " ", "e", "x", "t", "r", "a", "c", "t", " ", "c", "o", "d", "e", " ", "f", "r", "o", "m", " ", "r", "e", "s", "p", "o", "n", "s", "e">>
NO_ANSWER == <<"C", "o", "u", "l", "d", " ", "n", "o", "t", " ", "e", "x", "t", "r", "a", "c", "t", " ", "a", "n", "s", "w", "e", "r", " ", "f", "r", "o", "m", " ", "r", "e", "s", "p", "o", "n", "s", "e">>

(* The texts a model answers with, by name: content carries the name. *)
ResponseText(content) ==
    CASE content = "fenced" -> <<BACKQUOTE, BACKQUOTE, BACKQUOTE, "p", "y", "t", "h", "o", "n", "\n", "d", "e", "f", " ", "f", "(", "x", ")", ":", "\n", " ", "r", "e", "t", "u", "r", "n", " ", "x", "\n", BACKQUOTE, BACKQUOTE, BACKQUOTE>>
      [] content = "tagged" -> <<"A", "N", "S", "W", "E", "R", ":", " ", "4">>
      [] OTHER -> <<>>

(* lines 111 and 118: the extraction from the text of a response; the
   extractions from the texts above, for the function names of the corpus,
   are computed once and looked up *)
CodeTable ==
    {<<content, name, extract_code(ResponseText(content), name)>> :
        content \in {"fenced", "tagged"}, name \in {<<"f">>}}
AnswerTable ==
    {<<content, extract_answer(ResponseText(content))>> : content \in {"fenced", "tagged"}}
CodeIn(content, function_name) ==
    (CHOOSE e \in CodeTable : e[1] = content /\ e[2] = function_name)[3]
AnswerIn(content) == (CHOOSE e \in AnswerTable : e[1] = content)[2]

(* one evaluate_single task, line 193: a coroutine that has the locals of
   its complete call and its own arguments.  Besides the places of a
   complete call, pc is
     "check"    evaluator.py:27, in subprocess.run of evaluate_coding
     "done" / "failed"   evaluate_single returned its EvalResult / raised
   Kept for the properties:
   checked is <<>>, or <<the child process>> of the code check it ran;
   verified is whether evaluate_coding or evaluate_reasoning was called. *)
EvalTask(model_name, model_id, question, language) ==
    [kind |-> "eval", model_id |-> model_id,
     pc |-> "created", attempt |-> 0, last_error |-> None,
     t0 |-> None, now |-> 0, ret |-> None,
     sent |-> 0, last_dur |-> 0, delays |-> <<>>, made_client |-> FALSE,
     last_out |-> [label |-> None, status_code |-> 0, content |-> None],
     model_name |-> model_name, question |-> question, language |-> language,
     checked |-> <<>>, verified |-> FALSE]

(* lines 92-103: client.complete raised exc *)
ApiErrorResultNoError(task, exc) ==
    EvalResult(task.question.id, task.model_name, task.language, "", NoText,
               FALSE, NoText, 0, 0)
ApiErrorResult(task, exc) ==
    EvalResult(task.question.id, task.model_name, task.language, "", NoText,
               FALSE, Some(API_ERROR \o <<exc.type>>), 0, 0)
RaiseApiError(task, exc) == [task EXCEPT !.pc = "failed", !.ret = exc]
CatchApiError(task, exc) == [task EXCEPT !.pc = "done", !.ret = ApiErrorResult(task, exc)]

(* lines 105-136: client.complete returned resp; proc is what the child
   process of evaluate_coding does if the code check runs.  re.findall on a
   content that is null raises TypeError, outside the try of line 90. *)
Evaluated(task, resp, proc) ==
    LET question == task.question
        made(extracted, correct, error) ==
            [task EXCEPT !.pc = "done",
                         !.ret = EvalResult(question.id, task.model_name, task.language,
                                            resp.content, extracted, correct, error,
                                            resp.latency_ms, resp.tokens_used)]
    IN  IF resp.content = None
        THEN [task EXCEPT !.pc = "failed", !.ret = Error("TypeError", 0)]
        ELSE IF question.category = "coding"
        THEN LET code == CodeIn(resp.content, question.function_name)
                 verdict == Judge(proc)
             IN  IF code = NoText THEN made(NoText, FALSE, Some(NO_CODE))
                 ELSE [made(code, verdict.passed, verdict.error) EXCEPT !.checked = <<proc>>,
                                                                       !.verified = TRUE]
        ELSE LET extracted == AnswerIn(resp.content)
             IN  IF extracted = NoText THEN made(NoText, FALSE, Some(NO_ANSWER))
                 ELSE [made(extracted,
                            evaluate_reasoning(extracted[1], question.expected_answer,
                                               question.tolerance),
                            NoText) EXCEPT !.verified = TRUE]

(* evaluate_single from the end of its complete call (task.pc is "returned"
   or "raised") to its own end: pc becomes "done" with the EvalResult, or
   "failed" with the exception that leaves the task *)
EvaluateSingleAfter(task, proc) ==
    IF task.pc = "raised" THEN CatchApiError(task, task.ret)
    ELSE Evaluated(task, task.ret, proc)

(* lines 187-194: the tasks in the order they are created *)
TasksForOneLanguage(selected_models, questions) ==
    LET nq == Len(questions)
    IN  [i \in 1..(Len(selected_models) * 2 * nq) |->
            EvalTask(selected_models[((i - 1) \div (2 * nq)) + 1].name,
                     selected_models[((i - 1) \div (2 * nq)) + 1].id,
                     questions[((i - 1) % nq) + 1], "en")]
TasksFor(selected_models, questions) ==
    LET nq == Len(questions)
        langs == <<"en", "ru">>
    IN  [i \in 1..(Len(selected_models) * 2 * nq) |->
            LET m == selected_models[((i - 1) \div (2 * nq)) + 1]
                lang == langs[(((i - 1) \div nq) % 2) + 1]
                question == questions[((i - 1) % nq) + 1]
            IN  EvalTask(m.name, m.id, question, lang)]

(* close, lines 104-106 *)
Close(c) == IF c = "open" THEN "closed" ELSE c

(* run is called *)
RunCall ==
    /\ run.pc = "Idle"
    /\ run' = [run EXCEPT !.pc = "Loading"]
    /\ UNCHANGED <<tasks, semaphores, http_client, ec, fn>>

(* lines 148-171: the questions are loaded and cut to the limit, the models
   selected; with no question or no model run returns None *)
RunLoad ==
    /\ run.pc = "Loading"
    /\ LET loaded == load_questions(run.categories)
           questions == IF run.limit # <<>> THEN Slice(loaded, run.limit[1]) ELSE loaded
           selected_models == SelectModels(run.model_names)
       IN  IF questions = <<>>
           THEN run' = [run EXCEPT !.pc = "Done", !.questions = questions]
           ELSE IF selected_models = <<>>
           THEN run' = [run EXCEPT !.pc = "Done", !.questions = questions]
           ELSE run' = [run EXCEPT !.pc = "Dispatching", !.questions = questions,
                                   !.selected_models = selected_models]
    /\ UNCHANGED <<tasks, semaphores, http_client, ec, fn>>

(* lines 173-194: a dry run returns None; otherwise the client is made
   (client.py 28-36, RuntimeError without the key) and one task is created
   per model, language and question *)
Dispatch(dry_run, api_key) ==
    /\ run.pc = "Dispatching"
    /\ IF dry_run
       THEN /\ run' = [run EXCEPT !.pc = "Done"]
            /\ UNCHANGED <<tasks, semaphores, http_client>>
       ELSE IF ~api_key
       THEN /\ run' = [run EXCEPT !.pc = "Raised", !.exc = "RuntimeError"]
            /\ UNCHANGED <<tasks, semaphores, http_client>>
       ELSE /\ run' = [run EXCEPT !.pc = "Collecting", !.client = TRUE]
            /\ tasks' = TasksFor(run.selected_models, run.questions)
            /\ semaphores' = <<>>
            /\ http_client' = None
    /\ UNCHANGED <<ec, fn>>

(* a dispatch without the test of line 173; one without the test of
   client.py 29 *)
RunDispatchNotDry == Dispatch(FALSE, run.api_key)
RunDispatchAnyKey == Dispatch(run.dry_run, TRUE)
RunDispatch == Dispatch(run.dry_run, run.api_key)

(* a task runs only while run is suspended: in the loop of line 196, or in
   the close of __aexit__ *)
Suspended == run.pc \in {"Collecting", "Closing"}

(* evaluator.py 26-32: subprocess.run is a plain call that returns when the
   child process has ended or was killed at the timeout; the thread of the
   event loop is in it, so no coroutine runs until it returns *)
Blocked == \E t \in DOMAIN tasks : tasks[t].pc = "check"
LoopRuns == Suspended /\ ~Blocked

TaskStart(t) ==
    /\ LoopRuns
    /\ Begin(t)

(* a task that waited at its gate gets a permit *)
TaskAcquire(t) ==
    /\ LoopRuns
    /\ Acquire(t)

(* release wakes the first waiter of the gate before the task that released
   ends: the waiter runs before the callbacks of the finished task *)
WokenWaiter ==
    \E t \in DOMAIN tasks :
        /\ tasks[t].pc = "acquire"
        /\ GateOpen(semaphores[SemKey(tasks[t].model_id)])

(* the event loop runs every callback that is ready, the first step of each
   created task among them, before it polls the transport and the timers *)
Polling == \A t \in DOMAIN tasks : tasks[t].pc # "created"

(* lines 110-116: whether evaluate_single, with the response of its complete
   call, comes to call evaluate_coding *)
RunsCheckAnyway(task) ==
    /\ task.pc = "returned"
    /\ task.ret.content # None
    /\ task.question.category = "coding"
RunsCheck(task) ==
    /\ task.pc = "returned"
    /\ task.ret.content # None
    /\ task.question.category = "coding"
    /\ CodeIn(task.ret.content, task.question.function_name) # NoText

(* the transport answers the pending request of task t; if that ends the
   complete call, evaluate_single goes on without suspending: to its end,
   and as_completed queues the finished task, or into the subprocess.run of
   evaluate_coding ("check") *)
TaskRespond(t, out, dur) ==
    /\ LoopRuns
    /\ Polling
    /\ tasks[t].pc = "post"
    /\ LET task == Seen(AfterPost(tasks[t], out, dur), out, dur)
       IN  IF CompleteOver(task)
           THEN IF RunsCheck(task)
                THEN /\ tasks' = [tasks EXCEPT ![t] = [task EXCEPT !.pc = "check"]]
                     /\ semaphores' = Release(semaphores, task)
                     /\ UNCHANGED run
                ELSE /\ tasks' = [tasks EXCEPT ![t] = EvaluateSingleAfter(task, <<>>)]
                     /\ semaphores' = Release(semaphores, task)
                     /\ run' = [run EXCEPT !.completed = Append(@, t), !.order = Append(@, t)]
           ELSE /\ tasks' = [tasks EXCEPT ![t] = task]
                /\ UNCHANGED <<semaphores, run>>
    /\ UNCHANGED <<http_client, ec, fn>>

(* subprocess.run of task t returns: the child process did proc; the task
   goes on to its end and as_completed queues it *)
TaskChecked(t, proc) ==
    /\ Suspended
    /\ tasks[t].pc = "check"
    /\ tasks' = [tasks EXCEPT ![t] = Evaluated(tasks[t], tasks[t].ret, proc)]
    /\ run' = [run EXCEPT !.completed = Append(@, t), !.order = Append(@, t)]
    /\ UNCHANGED <<semaphores, http_client, ec, fn>>

(* the backoff delay of task t is over; after the last attempt complete
   raises and evaluate_single makes the API-error result *)
TaskWake(t) ==
    /\ LoopRuns
    /\ Polling
    /\ tasks[t].pc = "sleep"
    /\ LET task == AfterSleep(tasks[t])
       IN  IF CompleteOver(task)
           THEN /\ tasks' = [tasks EXCEPT ![t] = EvaluateSingleAfter(task, <<>>)]
                /\ semaphores' = Release(semaphores, task)
                /\ run' = [run EXCEPT !.completed = Append(@, t), !.order = Append(@, t)]
           ELSE /\ tasks' = [tasks EXCEPT ![t] = task]
                /\ UNCHANGED <<semaphores, run>>
    /\ UNCHANGED <<http_client, ec, fn>>

(* line 196: as_completed yields the finished tasks first finished first;
   the place in the queue of the one it yields next *)
AsCompletedLatest(completed) == Len(completed)
AsCompleted(completed) == 1
Without(seq, i) == SubSeq(seq, 1, i - 1) \o SubSeq(seq, i + 1, Len(seq))

(* lines 196-198: the next finished task is awaited; its result is appended,
   or its exception leaves the block through __aexit__ (client.py 111-112):
   close marks the transport closed and awaits its aclose *)
RunCollect ==
    /\ run.pc = "Collecting"
    /\ run.completed # <<>>
    /\ ~Blocked
    /\ ~WokenWaiter
    /\ LET i == AsCompleted(run.completed)
           t == run.completed[i]
       IN  IF tasks[t].pc = "done"
           THEN /\ run' = [run EXCEPT !.completed = Without(@, i),
                                      !.results = Append(@, tasks[t].ret)]
                /\ UNCHANGED http_client
           ELSE /\ run' = [run EXCEPT !.pc = "Closing", !.completed = Without(@, i),
                                      !.exc = tasks[t].ret.type]
                /\ http_client' = Close(http_client)
    /\ UNCHANGED <<tasks, semaphores, ec, fn>>

(* aclose is over: the exception leaves run, and asyncio.run cancels the
   tasks that are left (__main__.py 63) *)
RunRaise ==
    /\ run.pc = "Closing"
    /\ ~Blocked
    /\ run' = [run EXCEPT !.pc = "Raised"]
    /\ UNCHANGED <<tasks, semaphores, http_client, ec, fn>>

(* lines 196-215: every task has been awaited; the client is closed, the
   RunResults made and written, run returns it *)
RunFinish ==
    /\ run.pc = "Collecting"
    /\ Len(run.results) = Len(tasks)
    /\ http_client' = Close(http_client)
    /\ run' = [run EXCEPT !.pc = "Done", !.saved = TRUE,
                          !.ret = <<RunResults("run_id",
                                               [i \in 1..Len(run.selected_models) |->
                                                    run.selected_models[i].name],
                                               run.results)>>]
    /\ UNCHANGED <<tasks, semaphores, ec, fn>>

----------------------------------------------------------------------------
(* One run, with at most MaxTasks tasks.  A request is answered with a text;
   a request of the first task can also be answered with HTTP 500 or with a
   null content.  A code check times out or prints PASS. *)

RunModelNames == {<<>>, <<{"unknown"}>>, <<{MODELS[1].name}>>}
RunCategories == {<<>>, <<{"coding"}>>, <<{"reasoning"}>>}
RunLimits == {<<>>, <<0>>}

RunContents == {"fenced", "tagged"}
RunOutcomes == {Ok200(c, 7) : c \in RunContents}
RunFailures == {Status(500), Ok200(None, 7)}
RunProcesses ==
    {Process(TRUE, 0, <<>>, <<>>, <<>>),
     Process(FALSE, 0, SampleStdout(<<"pass">>), <<>>, <<"pass">>)}

(* the number of tasks the run makes, if it comes to make them *)
TaskCount(r) ==
    Len(SelectModels(r.model_names))
    * 2 * Len(IF r.limit # <<>> THEN Slice(load_questions(r.categories), r.limit[1])
              ELSE load_questions(r.categories))

InitRun ==
    /\ run \in {Run(m, c, l, d, k) : m \in RunModelNames, c \in RunCategories,
                                     l \in RunLimits, d \in BOOLEAN, k \in BOOLEAN}
    /\ TaskCount(run) <= MaxTasks
    /\ tasks = <<>>
    /\ semaphores = <<>>
    /\ http_client = None
    /\ ec = NoCall
    /\ fn = NoFn

NextRun ==
    \/ RunCall
    \/ RunLoad
    \/ RunDispatch
    \/ RunCollect
    \/ RunRaise
    \/ RunFinish
    \/ \E t \in TaskIds :
        \/ TaskStart(t)
        \/ \E out \in RunOutcomes : TaskRespond(t, out, 1)
        \/ /\ t \in FlakyCalls
           /\ \E out \in RunFailures : TaskRespond(t, out, 1)
        \/ \E proc \in RunProcesses : TaskChecked(t, proc)
        \/ TaskWake(t)

SpecRun == InitRun /\ [][NextRun]_vars

(* every request is answered or times out, every delay ends, every child
   process ends or is killed at its timeout, and the event loop runs what is
   ready: a step that can be taken is taken *)
InitRunLive == InitRun /\ TaskCount(run) <= MaxLiveTasks
SpecRunLive == InitRunLive /\ [][NextRun]_vars /\ WF_vars(NextRun)

----------------------------------------------------------------------------
(* One run of one model on four reasoning questions: eight tasks at one gate
   of MAX_CONCURRENT_PER_MODEL permits.  The requests of the first tasks are
   answered with a text, the others stay in flight; the request of the first
   task can be answered with a null content. *)

ScopeCorpus ==
    <<[stem |-> "reasoning",
       items |-> <<ReasoningQuestion("r1", <<"4">>, <<>>),
                   ReasoningQuestion("r2", <<"4">>, <<>>),
                   ReasoningQuestion("r3", <<"4">>, <<>>),
                   ReasoningQuestion("r4", <<"4">>, <<>>)>>]>>
ScopeAnswered == {1, 2, 3}
ScopeOutcomes == {Ok200("tagged", 7)}
ScopeFailures == {Ok200(None, 7)}

InitScope ==
    /\ run = [Run(<<{MODELS[1].name}>>, <<>>, <<>>, FALSE, TRUE) EXCEPT !.corpus = ScopeCorpus]
    /\ tasks = <<>>
    /\ semaphores = <<>>
    /\ http_client = None
    /\ ec = NoCall
    /\ fn = NoFn

NextScope ==
    \/ RunCall
    \/ RunLoad
    \/ RunDispatch
    \/ RunCollect
    \/ RunRaise
    \/ \E t \in TaskIds :
        \/ TaskStart(t)
        \/ TaskAcquire(t)
        \/ /\ t \in ScopeAnswered
           /\ \E out \in ScopeOutcomes : TaskRespond(t, out, 1)
        \/ /\ t \in FlakyCalls
           /\ \E out \in ScopeFailures : TaskRespond(t, out, 1)

SpecScope == InitScope /\ [][NextScope]_vars

----------------------------------------------------------------------------
(* evaluate_coding on a child process that exits with status 1 and an error
   stream of a length around STDERR_LIMIT, with or without a last newline. *)

StderrOf(n, newline) == [i \in 1..n |-> "E"] \o (IF newline THEN NEWLINE ELSE <<>>)
StderrSamples ==
    {StderrOf(n, newline) :
        n \in (STDERR_LIMIT - StderrSpan)..(STDERR_LIMIT + StderrSpan),
        newline \in BOOLEAN}

InitStderr ==
    /\ fn \in {Fn("evaluate_coding", [result |-> Process(FALSE, 1, <<>>, stderr, <<>>)]) :
                  stderr \in StderrSamples}
    /\ tasks = <<>>
    /\ semaphores = <<>>
    /\ http_client = None
    /\ ec = NoCall
    /\ run = NoRun

(* evaluate_coding, lines 38-43, returns its verdict on the process *)
JudgeNonZeroExit ==
    /\ fn.name = "evaluate_coding" /\ fn.pc = "called"
    /\ fn' = [fn EXCEPT !.pc = "returned", !.ret = <<Judge(fn.args.result)>>]
    /\ UNCHANGED <<tasks, semaphores, http_client, ec, run>>

NextStderr == JudgeNonZeroExit

SpecStderr == InitStderr /\ [][NextStderr]_vars

----------------------------------------------------------------------------
(* evaluate_reasoning called on every candidate text of at most MaxText
   characters, and on some longer numbers, against the expected answers of
   the questions *)

(* every text of at most n characters of the alphabet *)
TextsUpTo(alphabet, n) == UNION {[1..k -> alphabet] : k \in 0..n}

ReasonAlphabet == {"4", "5", ".", "-", " ", "a", "A"}
ReasonCandidates ==
    TextsUpTo(ReasonAlphabet, MaxText)
    \cup {<<"1", "0", "0", "0", "0", "0", "0", "0", ".", "0", "1">>, <<"1", "0", "0", "0", "0", "0", "0", "0">>, <<"4", ".", "5", "0">>, <<" ", "4", ".", "5", " ">>}
ReasonExpected == {<<"4">>, <<"4", ".", "5">>, <<"a">>, <<"-", "4">>, <<"1", "0", "0", "0", "0", "0", "0", "0">>, <<"4", ".", "0">>}
(* none, 0.0, 0.5 and -1.0 *)
ReasonTolerances == {<<>>, <<0>>, <<50>>, <<0 - 100>>}

InitReason ==
    /\ fn \in {Fn("evaluate_reasoning",
                  [extracted |-> c, expected |-> e, tolerance |-> t]) :
                  c \in ReasonCandidates, e \in ReasonExpected, t \in ReasonTolerances}
    /\ tasks = <<>>
    /\ semaphores = <<>>
    /\ http_client = None
    /\ ec = NoCall
    /\ run = NoRun

(* evaluate_reasoning, lines 86-105, runs and returns *)
EvaluateReasoning ==
    /\ fn.name = "evaluate_reasoning" /\ fn.pc = "called"
    /\ fn' = [fn EXCEPT !.pc = "returned",
                        !.ret = <<evaluate_reasoning(fn.args.extracted, fn.args.expected,
                                                     fn.args.tolerance)>>]
    /\ UNCHANGED <<tasks, semaphores, http_client, ec, run>>

NextReason == EvaluateReasoning

SpecReason == InitReason /\ [][NextReason]_vars

----------------------------------------------------------------------------
(* extract_code called on responses of 1..MaxBlocks fenced blocks, each
   tagged python or py, with a line of prose after each *)

BlockBodies == {<<"d", "e", "f", " ", "f", "(", "x", ")", ":", "\n", " ", "r", "e", "t", "u", "r", "n", " ", "1">>,
                <<"d", "e", "f", " ", "f", "2", "(", "x", ")", ":", "\n", " ", "r", "e", "t", "u", "r", "n", " ", "2">>,
                <<"d", "e", "f", " ", "g", "(", "x", ")", ":", "\n", " ", "r", "e", "t", "u", "r", "n", " ", "3">>,
                <<"x", " ", "=", " ", "1">>}
FencedBlock(tag, body) == FENCE \o tag \o NEWLINE \o body \o NEWLINE \o FENCE
RECURSIVE ResponseOf(_)
ResponseOf(blocks) ==
    IF blocks = <<>> THEN <<>>
    ELSE FencedBlock(Head(blocks).tag, Head(blocks).body) \o NEWLINE
         \o <<"o", "k">> \o NEWLINE \o ResponseOf(Tail(blocks))
CodeResponses ==
    UNION {[1..n -> [tag : {PYTHON, PY}, body : BlockBodies]] : n \in 1..MaxBlocks}
FunctionNames == {<<"f">>, <<"f", "2">>}

InitCode ==
    /\ fn \in {Fn("extract_code",
                  [blocks |-> blocks, response |-> ResponseOf(blocks),
                   function_name |-> name]) :
                  blocks \in CodeResponses, name \in FunctionNames}
    /\ tasks = <<>>
    /\ semaphores = <<>>
    /\ http_client = None
    /\ ec = NoCall
    /\ run = NoRun

(* extract_code, lines 5-32, runs and returns *)
ExtractCode ==
    /\ fn.name = "extract_code" /\ fn.pc = "called"
    /\ fn' = [fn EXCEPT !.pc = "returned",
                        !.ret = <<extract_code(fn.args.response, fn.args.function_name)>>]
    /\ UNCHANGED <<tasks, semaphores, http_client, ec, run>>

NextCode == ExtractCode

SpecCode == InitCode /\ [][NextCode]_vars

----------------------------------------------------------------------------
(* extract_answer called on every response made of at most MaxPieces pieces:
   the tag in either case, a space, a newline, a digit, a letter, a sign, a
   decimal point *)

AnswerPieces == {ANSWER_TAG, LowerText(ANSWER_TAG), <<" ">>, NEWLINE,
                 <<"7">>, <<"x">>, <<"-">>, <<".">>}
RECURSIVE Concat(_)
Concat(pieces) == IF pieces = <<>> THEN <<>> ELSE Head(pieces) \o Concat(Tail(pieces))
AnswerResponses ==
    {Concat(pieces) : pieces \in UNION {[1..n -> AnswerPieces] : n \in 0..MaxPieces}}

InitAnswer ==
    /\ fn \in {Fn("extract_answer", [response |-> r]) : r \in AnswerResponses}
    /\ tasks = <<>>
    /\ semaphores = <<>>
    /\ http_client = None
    /\ ec = NoCall
    /\ run = NoRun

(* extract_answer, lines 35-53, runs and returns *)
ExtractAnswer ==
    /\ fn.name = "extract_answer" /\ fn.pc = "called"
    /\ fn' = [fn EXCEPT !.pc = "returned", !.ret = <<extract_answer(fn.args.response)>>]
    /\ UNCHANGED <<tasks, semaphores, http_client, ec, run>>

NextAnswer == ExtractAnswer

SpecAnswer == InitAnswer /\ [][NextAnswer]_vars

----------------------------------------------------------------------------
(* Properties of the client *)

ModelIds == {tasks[t].model_id : t \in TaskIds}

(* the calls for model_id that hold a permit: past the gate, not yet
   returned or raised; a call in its backoff sleep is one of them *)
InFlight(model_id) ==
    Cardinality({t \in TaskIds : /\ tasks[t].model_id = model_id
                                 /\ tasks[t].pc \in {"post", "sleep"}})

(* C1: at most MAX_CONCURRENT_PER_MODEL calls of one model are in flight at
   any instant, and a call that has not passed its gate has sent no request. *)
C1_AtMostCapInFlight ==
    /\ \A m \in ModelIds : InFlight(m) <= MAX_CONCURRENT_PER_MODEL
    /\ \A t \in TaskIds : tasks[t].pc \in {"created", "acquire"} => tasks[t].sent = 0

(* the gate of m1 is full, one of its holders sleeps in a backoff, and a
   sixth call waits at the gate *)
C1_Witness ==
    /\ InFlight("m1") = MAX_CONCURRENT_PER_MODEL
    /\ \E t \in TaskIds : tasks[t].model_id = "m1" /\ tasks[t].pc = "sleep"
    /\ \E t \in TaskIds : tasks[t].model_id = "m1" /\ tasks[t].pc = "acquire"

(* C2: the calls of one model are never held up by another model's gate: the
   call of a model that is next at its gate gets a permit and sends its
   request whenever fewer than MAX_CONCURRENT_PER_MODEL calls of its own model
   are in flight, however full the other gates are. *)
C2_OtherModelsNotBlocked ==
    \A t \in TaskIds :
        (/\ tasks[t].pc \in {"created", "acquire"}
         /\ Turn(t, tasks[t].pc)
         /\ InFlight(tasks[t].model_id) < MAX_CONCURRENT_PER_MODEL)
        => ENABLED ((Begin(t) \/ Acquire(t)) /\ tasks'[t].pc = "post")

(* m1 is saturated with a call waiting, and the call for m2 has not started *)
C2_Witness ==
    /\ InFlight("m1") = MAX_CONCURRENT_PER_MODEL
    /\ \E t \in TaskIds : tasks[t].model_id = "m1" /\ tasks[t].pc = "acquire"
    /\ \E t \in TaskIds : tasks[t].model_id = "m2" /\ tasks[t].pc = "created"
    /\ InFlight("m2") = 0

(* the failure classes the retry policy names: HTTP 429, 5xx, a response
   timeout, a body without the expected fields *)
Is429or5xx(o) == o.label = "status" /\ (o.status_code = 429 \/ o.status_code >= 500)
IsMalformedBody(o) == o.label \in {"missing_key", "empty_choices", "not_json"}
IsTransient(o) == Is429or5xx(o) \/ o.label = "ReadTimeout" \/ IsMalformedBody(o)
IsFailure(o) == o.label # "ok"

Finished(t) == tasks[t].pc \in {"returned", "raised"}

(* C3: an attempt that fails with any other failure class (a 4xx other than
   429) is not retried: no backoff, no further request, the call is over. *)
C3_OtherFailuresNotRetried ==
    \A t \in TaskIds :
        (tasks[t].last_out.label # None /\ IsFailure(tasks[t].last_out)
           /\ ~IsTransient(tasks[t].last_out))
        => (tasks[t].pc = "raised" /\ tasks[t].ret.type # "RuntimeError")

(* C4: none of the transient failure classes ends the call before
   MAX_RETRIES attempts were made. *)
C4_TransientRetried ==
    \A t \in TaskIds :
        (IsTransient(tasks[t].last_out)
           /\ tasks[t].sent < MAX_RETRIES)
        => ~Finished(t)

(* C5: a call sends at most MAX_RETRIES requests, and a call whose last
   allowed attempt failed with a retried class has raised the error that
   wraps the attempt count, the model id and the last error seen: it has not
   returned a response. *)
LastError(o) ==
    IF o.label = "status" THEN Error("RuntimeError", o.status_code)
    ELSE IF o.label = "missing_key" THEN Error("KeyError", o.status_code)
    ELSE Error(o.label, 0)

Permits(m) == Lookup(semaphores, SemKey(m))[SemKey(m)]
AllOver(m) ==
    \A t \in TaskIds : tasks[t].model_id = m => tasks[t].pc \in {"returned", "raised"}

(* C24: for every model, the permits of its gate that are taken are as many
   as its calls that got a permit and have not returned or raised yet, those
   that sleep in a backoff included; every call gives its permit back however
   it ends, so that when all calls of a model are over its gate has all
   MAX_CONCURRENT_PER_MODEL permits. *)
C24_PermitsMatchCallsInFlight ==
    \A m \in ModelIds :
        /\ MAX_CONCURRENT_PER_MODEL - Permits(m) = InFlight(m)
        /\ AllOver(m) => Permits(m) = MAX_CONCURRENT_PER_MODEL

(* all calls of m1 are over, one returned, one raised an exception that is
   not retried, one gave up after MAX_RETRIES attempts; all permits are back *)
C24_Witness ==
    /\ AllOver("m1")
    /\ Permits("m1") = MAX_CONCURRENT_PER_MODEL
    /\ \E t \in TaskIds : tasks[t].model_id = "m1" /\ tasks[t].pc = "returned"
    /\ \E t \in TaskIds : /\ tasks[t].model_id = "m1" /\ tasks[t].pc = "raised"
                          /\ tasks[t].last_out.label = "ConnectError"
    /\ \E t \in TaskIds : /\ tasks[t].model_id = "m1" /\ tasks[t].pc = "raised"
                          /\ tasks[t].sent = MAX_RETRIES

(* the calls whose _get_client created a transport *)
Makers == {t \in TaskIds : tasks[t].made_client}
PastGate(t) == tasks[t].pc \notin {"created", "acquire"}

(* C28: however the calls on one client interleave, as long as no transport
   was closed at most one is created: the first call past its gate creates
   it and every call past its gate has that one. *)
C28_OneTransport ==
    /\ Cardinality(Makers) <= 1
    /\ (\E t \in TaskIds : PastGate(t)) => (http_client = "open" /\ Cardinality(Makers) = 1)
    /\ (\A t \in TaskIds : ~PastGate(t)) => (http_client = None /\ Makers = {})

(* the calls of two models are in flight together, the gate of m1 full; one
   of them created the transport *)
C28_Witness ==
    /\ InFlight("m1") = MAX_CONCURRENT_PER_MODEL
    /\ InFlight("m2") = 1
    /\ Cardinality(Makers) = 1
    /\ http_client = "open"

(* C20: the waits of one complete call are 2, 4, 8 seconds in this order,
   one after each failed attempt that is retried, whatever the failure was
   (429, 5xx, read timeout, a body without the key): the wait after the i-th
   such attempt is 2^i. *)
C20_BackoffDoubles ==
    \A t \in TaskIds :
        LET d == tasks[t].delays
        IN  /\ Len(d) <= MAX_RETRIES
            /\ \A i \in 1..Len(d) : d[i].wait = <<2, 4, 8>>[i]
            /\ tasks[t].pc = "sleep" => Len(d) = tasks[t].sent
            /\ tasks[t].pc = "post" => Len(d) = tasks[t].sent - 1

(* a call that gave up after three attempts that failed in different ways *)
C20_Witness ==
    \E t \in TaskIds :
        /\ tasks[t].pc = "raised"
        /\ Len(tasks[t].delays) = MAX_RETRIES
        /\ tasks[t].delays[1].cause # tasks[t].delays[2].cause
        /\ tasks[t].delays[MAX_RETRIES].wait = 8

(* C6: a call whose latest attempt succeeded has returned that attempt's
   response, and its latency_ms is the time that attempt took, whatever the
   failed attempts and the backoff delays before it took. *)
C6_LatencyOfSuccessfulAttempt ==
    \A t \in TaskIds :
        (tasks[t].last_out.label = "ok")
        => /\ tasks[t].pc = "returned"
           /\ tasks[t].ret.content = tasks[t].last_out.content
           /\ tasks[t].ret.latency_ms = tasks[t].last_dur

(* two failed attempts, then a success *)
C6_Witness ==
    \E t \in TaskIds :
        /\ tasks[t].pc = "returned" /\ tasks[t].sent = MAX_RETRIES
        /\ tasks[t].ret.latency_ms = 1

----------------------------------------------------------------------------
(* Properties of run *)

TripleOf(r) == <<r.model, r.language, r.question_id>>
TaskTriple(task) == <<task.model_name, task.language, task.question.id>>
Triples ==
    {<<run.selected_models[i].name, lang, run.questions[j].id>> :
        i \in 1..Len(run.selected_models), lang \in {"en", "ru"},
        j \in 1..Len(run.questions)}
Returned == run.pc = "Done" /\ run.ret # <<>>

(* the complete call of task t raised after MAX_RETRIES retried failures *)
ExhaustedTask(t) ==
    /\ tasks[t].pc \in {"done", "failed"}
    /\ tasks[t].sent = MAX_RETRIES
    /\ tasks[t].last_out.label = "status"
    /\ RetryStatus(tasks[t].last_out.status_code)
(* the child process of the code check of task t was killed at the timeout *)
TimedOutTask(t) == tasks[t].checked # <<>> /\ tasks[t].checked[1].timed_out
FailedTask(t) == ExhaustedTask(t) \/ TimedOutTask(t)

(* C7: a task whose complete call exhausted its retries, or whose code check
   timed out, ends with an EvalResult that has correct = false and a
   non-empty error, and no exception leaves it; run is left by an exception
   only for another cause; every result collected is the one its own task
   made, from its own answer; once every task has its result run can finish,
   and the RunResults it returns holds the result of every task. *)
C7_TaskFailureIsolated ==
    /\ \A t \in TaskIds :
          FailedTask(t) => /\ tasks[t].pc = "done"
                           /\ tasks[t].ret.correct = FALSE
                           /\ tasks[t].ret.error # NoText
                           /\ tasks[t].ret.error[1] # <<>>
    /\ run.pc = "Raised" =>
          \/ tasks = <<>>
          \/ \E t \in TaskIds : tasks[t].pc = "failed" /\ ~FailedTask(t)
    /\ \A i \in 1..Len(run.results) :
          \E t \in TaskIds : /\ tasks[t].pc = "done"
                             /\ run.results[i] = tasks[t].ret
    /\ \A t \in TaskIds :
          (tasks[t].pc = "done" /\ ~ExhaustedTask(t)) =>
              /\ TripleOf(tasks[t].ret) = TaskTriple(tasks[t])
              /\ tasks[t].ret.raw_response = tasks[t].last_out.content
    /\ (/\ run.pc = "Collecting" /\ run.completed = <<>>
        /\ \A t \in TaskIds : tasks[t].pc = "done")
       => Len(run.results) = Len(tasks)
    /\ Returned =>
          \A t \in TaskIds :
              /\ tasks[t].pc = "done"
              /\ \E i \in 1..Len(run.ret[1].results) :
                     run.ret[1].results[i] = tasks[t].ret

(* run returned four results: one of a task that exhausted its retries, one
   of a task whose code check timed out, one that is correct *)
C7_Witness ==
    /\ Returned
    /\ Len(run.ret[1].results) = 4
    /\ \E t \in TaskIds : ExhaustedTask(t)
    /\ \E t \in TaskIds : TimedOutTask(t)
    /\ \E t \in TaskIds : tasks[t].ret.correct

(* C8: in a run that got to make its tasks there is exactly one task for each
   triple of a selected model, a language and a question; no triple has two
   results at any time; and the RunResults that run returns has exactly
   |S| * 2 * |Q| results, one for each triple. *)
C8_OneResultPerTriple ==
    /\ tasks # <<>> =>
          /\ Len(tasks) = Len(run.selected_models) * 2 * Len(run.questions)
          /\ \A triple \in Triples :
                Cardinality({t \in TaskIds : TaskTriple(tasks[t]) = triple}) = 1
    /\ \A i, j \in 1..Len(run.results) :
          i # j => TripleOf(run.results[i]) # TripleOf(run.results[j])
    /\ \A i \in 1..Len(run.results) : TripleOf(run.results[i]) \in Triples
    /\ Returned =>
          /\ Len(run.ret[1].results) = Len(run.selected_models) * 2 * Len(run.questions)
          /\ \A triple \in Triples :
                Cardinality({i \in 1..Len(run.ret[1].results) :
                                TripleOf(run.ret[1].results[i]) = triple}) = 1

(* run returned the results of one model on two questions, in an order that
   is not the order in which the tasks were created *)
C8_Witness ==
    /\ Returned
    /\ Len(run.questions) = 2
    /\ Len(run.ret[1].results) = 4
    /\ TripleOf(run.ret[1].results[1]) # TaskTriple(tasks[1])

(* C21: the results are in the order in which the tasks finished: the i-th
   result collected is the result of the i-th task to finish, whatever the
   order in which the tasks were created; the RunResults returned holds the
   results of all tasks in that order. *)
C21_ResultsInCompletionOrder ==
    /\ Len(run.results) <= Len(run.order)
    /\ \A i \in 1..Len(run.results) : run.results[i] = tasks[run.order[i]].ret
    /\ Returned =>
          /\ Len(run.ret[1].results) = Len(run.order)
          /\ \A i \in 1..Len(run.order) :
                run.ret[1].results[i] = tasks[run.order[i]].ret

(* run returned four results; the task created last finished first *)
C21_Witness ==
    /\ Returned
    /\ Len(run.order) = 4
    /\ run.order[1] = 4
    /\ run.ret[1].results[1] = tasks[4].ret

(* the complete call of task t returned a text, and the extraction from it
   (extract_code for a coding question, extract_answer for a reasoning
   question) gives None *)
Answered(t) ==
    /\ tasks[t].pc \in {"check", "done"}
    /\ tasks[t].last_out.label = "ok"
    /\ tasks[t].last_out.content # None
ExtractionOf(question, content) ==
    IF question.category = "coding"
    THEN extract_code(ResponseText(content), question.function_name)
    ELSE extract_answer(ResponseText(content))
CorpusQuestions ==
    UNION {{file.items[i] : i \in 1..Len(file.items)} :
              file \in {QUESTIONS_DIR[k] : k \in 1..Len(QUESTIONS_DIR)}}
FailedExtractions ==
    UNION {IF ExtractionOf(q, c) = NoText THEN {<<q, c>>} ELSE {} :
              q \in CorpusQuestions, c \in RunContents}
ExtractionFailed(t) ==
    Answered(t) /\ <<tasks[t].question, tasks[t].last_out.content>> \in FailedExtractions

(* C22: a task whose extraction gives None ends at once with its EvalResult:
   no child process is started and no verifier called, no request is sent
   besides the one answered and those retried before it, and the result has
   correct = false, no extracted answer, a non-empty error, and the raw
   text, latency and token count of the response. *)
C22_ExtractionFailureRecorded ==
    \A t \in TaskIds :
        ExtractionFailed(t) =>
            /\ tasks[t].pc = "done"
            /\ tasks[t].checked = <<>> /\ ~tasks[t].verified
            /\ tasks[t].sent = Len(tasks[t].delays) + 1
            /\ tasks[t].ret.correct = FALSE
            /\ tasks[t].ret.extracted_answer = NoText
            /\ tasks[t].ret.error # NoText /\ tasks[t].ret.error[1] # <<>>
            /\ tasks[t].ret.raw_response = tasks[t].last_out.content
            /\ tasks[t].ret.latency_ms = tasks[t].last_dur
            /\ tasks[t].ret.tokens_used = 7

(* a coding task and a reasoning task whose extractions both gave None, the
   first after a retried failure *)
C22_Witness ==
    \E t, u \in TaskIds :
        /\ ExtractionFailed(t) /\ tasks[t].question.category = "coding"
        /\ tasks[t].sent = 2
        /\ ExtractionFailed(u) /\ tasks[u].question.category = "reasoning"

(* the order of the states of a run *)
Rank(pc) ==
    CASE pc = "Idle" -> 0
      [] pc = "Loading" -> 1
      [] pc = "Dispatching" -> 2
      [] pc = "Collecting" -> 3
      [] pc = "Done" -> 4
      [] OTHER -> 5

(* C25: a run goes through Idle, Loading, Dispatching, Collecting, Done in
   this order and never back; when it is not a dry run and has come to
   Dispatching it comes to Done; and every task that was created comes to
   have its EvalResult. *)
C25_RunReachesDone ==
    /\ [][Rank(run'.pc) >= Rank(run.pc)]_vars
    /\ (~run.dry_run /\ run.pc = "Dispatching") ~> (run.pc = "Done")
    /\ \A t \in 1..MaxLiveTasks :
          (t \in DOMAIN tasks) ~> (t \in DOMAIN tasks /\ tasks[t].pc = "done")

(* the complete call of task t raised: evaluate_single made its result in
   the except clause *)
ApiFailed(t) == tasks[t].pc = "done" /\ tasks[t].last_out.label # "ok"

(* C27: in every EvalResult that evaluate_single returns, correct comes with
   no error and with an extracted answer; no extracted answer comes with
   correct = false and a non-empty error; and the result of a failed
   complete call has an empty raw_response, no extracted answer, and 0 for
   latency_ms and tokens_used. *)
C27_EvalResultWellFormed ==
    \A t \in TaskIds :
        tasks[t].pc = "done" =>
            LET r == tasks[t].ret
            IN  /\ r.correct => (r.error = NoText /\ r.extracted_answer # NoText)
                /\ r.extracted_answer = NoText =>
                      (~r.correct /\ r.error # NoText /\ r.error[1] # <<>>)
                /\ ApiFailed(t) =>
                      /\ r.raw_response = ""
                      /\ r.extracted_answer = NoText
                      /\ r.latency_ms = 0
                      /\ r.tokens_used = 0

(* run returned a correct result, the result of an extraction that gave
   None and the result of a failed complete call *)
C27_Witness ==
    /\ Returned
    /\ \E t \in TaskIds : tasks[t].ret.correct
    /\ \E t \in TaskIds : ExtractionFailed(t)
    /\ \E t \in TaskIds : ApiFailed(t)

(* run is past Loading *)
Loaded == run.pc \notin {"Idle", "Loading"}
NoQuestions == run.questions = <<>>
NoModels == run.selected_models = <<>>
Ended == run.pc \in {"Done", "Raised"}
(* nothing was done: no client, no task, no transport, no file, no value *)
NothingDone ==
    /\ ~run.client
    /\ tasks = <<>>
    /\ http_client = None
    /\ ~run.saved
    /\ run.ret = <<>>

(* C16: a dry run that has questions and models goes from Dispatching to
   Done and nowhere else: it is never collecting, closing or raised, and no
   client is made, no task created, no request sent, no file written, and
   None is returned. *)
C16_DryRunDoesNothing ==
    run.dry_run =>
        /\ run.pc \in {"Idle", "Loading", "Dispatching", "Done"}
        /\ NothingDone

(* a dry run with questions and models, over *)
C16_Witness ==
    /\ run.dry_run
    /\ run.pc = "Done"
    /\ ~NoQuestions /\ ~NoModels
    /\ NothingDone

(* C17: with no question after the filter, or no model selected, run returns
   None before Dispatching, with no client, no task and no file; and a run
   that is not a dry run ends without a results file only in these two
   cases. *)
C17_AbortOnlyWhenEmpty ==
    /\ (Loaded /\ (NoQuestions \/ NoModels)) => (run.pc = "Done" /\ NothingDone)
    /\ (~run.dry_run /\ Ended /\ ~run.saved) => (NoQuestions \/ NoModels)

(* C18: a run that is not a dry run and has no credential is left by the
   RuntimeError of the client constructor: it is never collecting, no task
   is created, no request sent, no RunResults made, and it does not end
   in Done once it has questions and models. *)
C18_NoCredentialNoTask ==
    (~run.dry_run /\ ~run.api_key) =>
        /\ run.pc \notin {"Collecting", "Closing"}
        /\ NothingDone
        /\ run.pc = "Raised" => run.exc = "RuntimeError"
        /\ (run.pc = "Done") => (NoQuestions \/ NoModels)

(* a run with questions and models and no credential, raised *)
C18_Witness ==
    /\ ~run.dry_run /\ ~run.api_key
    /\ ~NoQuestions /\ ~NoModels
    /\ run.pc = "Raised" /\ run.exc = "RuntimeError"
    /\ tasks = <<>>

(* the event task u waits for can be delivered: its request is answered or
   its backoff delay is over, once every task has started *)
Ready(u) == Polling /\ tasks[u].pc \in {"post", "sleep"}

(* C19: a task that waits, for the network, for a backoff delay or for the
   child process of its code check, has yielded: the event loop runs, and
   any other task whose request is answered or whose delay is over meanwhile
   goes on. *)
C19_WaitsYield ==
    \A t, u \in TaskIds :
        (/\ t # u
         /\ Suspended
         /\ tasks[t].pc \in {"post", "sleep", "check"}
         /\ Ready(u))
        => LoopRuns

(* the async with block of run (runner.py 183-199) has been left *)
ScopeEnded == run.client /\ run.pc \in {"Done", "Raised"}

(* C14: the transport is not created before a complete call has passed its
   gate, and once the async with block has ended no transport is open,
   whatever the calls did. *)
C14_TransportScoped ==
    /\ http_client # None => \E t \in TaskIds : tasks[t].sent > 0
    /\ ScopeEnded => http_client # "open"

----------------------------------------------------------------------------
(* Properties of evaluate_reasoning *)

ReasonReturned == fn.name = "evaluate_reasoning" /\ fn.pc = "returned"

(* the trimmed, lower-cased strings are equal *)
SameNormalized ==
    LowerText(Strip(fn.args.extracted)) = LowerText(Strip(fn.args.expected))
(* both sides parse as numbers a and b, and |a - b| <= tol, where tol is the
   tolerance given, or 0 *)
WithinTolerance ==
    LET a == ParseFloat(LowerText(Strip(fn.args.extracted)))
        b == ParseFloat(LowerText(Strip(fn.args.expected)))
        tol == IF fn.args.tolerance # <<>> THEN fn.args.tolerance[1] ELSE 0
    IN  a.ok /\ b.ok /\ Abs(a.value - b.value) <= tol

(* C11: evaluate_reasoning returns true iff the normalized strings are equal
   or both are numbers no further apart than the tolerance (0 when there is
   none); so with no tolerance two different numbers never match. *)
C11_MatchIffEqualOrWithinTolerance ==
    ReasonReturned => (fn.ret[1] <=> (SameNormalized \/ WithinTolerance))

----------------------------------------------------------------------------
(* Properties of extract_code *)

CodeReturned == fn.name = "extract_code" /\ fn.pc = "returned"

(* the body holds a definition of exactly this function: def, the name, and
   the opening parenthesis *)
Defines(body, function_name) == Contains(body, DEF_ \o function_name \o <<"(">>)
DefiningBlocks ==
    {i \in 1..Len(fn.args.blocks) : Defines(fn.args.blocks[i].body, fn.args.function_name)}

(* C12: for a response with fenced blocks extract_code returns the body of
   the first block that defines exactly function_name, and the body of the
   first block only when no block defines it. *)
C12_FirstBlockThatDefines ==
    CodeReturned =>
        IF DefiningBlocks # {}
        THEN fn.ret[1] = Some(Strip(fn.args.blocks[
                 CHOOSE i \in DefiningBlocks : \A j \in DefiningBlocks : i <= j].body))
        ELSE fn.ret[1] = Some(Strip(fn.args.blocks[1].body))

----------------------------------------------------------------------------
(* Properties of extract_answer *)

AnswerReturned == fn.name = "extract_answer" /\ fn.pc = "returned"

(* where the tag occurs in the response, in any case of its letters *)
TagPositions(s) ==
    {i \in 1..Len(s) : MatchAt(LowerText(s), LowerText(ANSWER_TAG), i)}
(* the text that follows the tag at position i: from the first character
   that is not whitespace to the end of its line, trimmed; empty if only
   whitespace follows *)
TextAfterTag(s, i) ==
    LET k == WsEnd(s, i + Len(ANSWER_TAG))
    IN  IF k > Len(s) THEN <<>> ELSE Strip(SubSeq(s, k, LineEnd(s, k)))

(* C13: with one or more tags in the response, wherever they are,
   extract_answer returns the trimmed text after the last of them; with no
   tag it returns the last integer or decimal token; with neither, none. *)
C13_TextAfterLastTag ==
    AnswerReturned =>
        LET s == fn.args.response
            tags == TagPositions(s)
            numbers == Numbers(s, 1)
        IN  IF tags # {}
            THEN fn.ret[1] = Some(TextAfterTag(s, CHOOSE i \in tags : \A j \in tags : i >= j))
            ELSE IF numbers # <<>> THEN fn.ret[1] = Some(numbers[Len(numbers)])
            ELSE fn.ret[1] = NoText

----------------------------------------------------------------------------
(* Properties of evaluate_coding *)

KindsOf(result) == {result.kinds[i] : i \in 1..Len(result.kinds)}
FailLines(result) ==
    LET idx == SelectSeq([i \in 1..Len(result.kinds) |-> i],
                         LAMBDA i : result.kinds[i] = "fail")
    IN  [k \in 1..Len(idx) |-> SampleLine("fail", idx[k])]

(* C9: the verdict follows the process outcome in this order: timeout, then
   non-zero exit, then any FAIL: line (all of them joined), then no PASS:
   line, else success; passed comes without a diagnostic and a failure always
   with a non-empty one. *)
C9_VerdictPrecedence ==
    (ec.pc = "done") =>
        LET result == ec.result[1]
            passed == ec.ret[1].passed
            error == ec.ret[1].error
        IN  /\ passed <=> error = NoText
            /\ ~passed => error[1] # <<>>
            /\ IF result.timed_out
               THEN ~passed /\ error = Some(TIMED_OUT)
               ELSE IF result.returncode # 0
               THEN ~passed /\ error = Some(RUNTIME_ERROR \o result.stderr)
               ELSE IF "fail" \in KindsOf(result)
               THEN ~passed /\ (ec.code.kind = "other"
                                  => error = Some(Join(FailLines(result), SEMI)))
               ELSE IF "pass" \notin KindsOf(result)
               THEN ~passed /\ StartsWith(error[1], NO_OUTPUT)
               ELSE passed

(* a process that exits with 0 and prints a PASS: line after a FAIL: line *)
C9_Witness ==
    /\ ec.pc = "done"
    /\ ~ec.result[1].timed_out /\ ec.result[1].returncode = 0
    /\ ec.result[1].kinds = <<"fail", "pass">>
    /\ ~ec.ret[1].passed

(* every test case's input expression evaluates equal to its expected literal *)
AllCasesEqual ==
    \A i \in 1..Len(ec.test_cases) :
        LET r == ec.code.f[ec.test_cases[i].input]
        IN  ~r.raises /\ r.value = ec.test_cases[i].expected

(* C10 as claimed: for a well-formed candidate and a test-case sequence of any
   length, the empty one included, passed is true iff every case is equal. *)
C10_PassedIffAllEqual ==
    (ec.pc = "done" /\ ec.code.kind = "function")
        => (ec.ret[1].passed <=> AllCasesEqual)

(* C10, amended: for a well-formed candidate and a non-empty test-case
   sequence, passed is true iff every case is equal; with no test case the
   verdict is a failure. *)
C10_PassedIffAllEqualNonEmpty ==
    (ec.pc = "done" /\ ec.code.kind = "function")
        => IF ec.test_cases = <<>>
           THEN ~ec.ret[1].passed
           ELSE ec.ret[1].passed <=> AllCasesEqual

C10_Witness ==
    /\ ec.pc = "done" /\ ec.code.kind = "function"
    /\ Len(ec.test_cases) = MaxCases
    /\ ec.test_cases[1] # ec.test_cases[2]
    /\ ec.ret[1].passed

(* C23: on a non-zero exit the verdict is a failure whose diagnostic has at
   most STDERR_LIMIT characters, whatever the length of the error stream. *)
C23_DiagnosticAtMostLimit ==
    (fn.name = "evaluate_coding" /\ fn.pc = "returned") =>
        /\ ~fn.ret[1].passed
        /\ Len(fn.ret[1].error[1]) <= STDERR_LIMIT

(* the PASS: lines the process printed *)
PassLines(result) ==
    Cardinality({i \in 1..Len(result.kinds) : result.kinds[i] = "pass"})

(* C26: the verdict is a success only when the process printed as many
   PASS: lines as the question has test cases and no FAIL: line. *)
C26_PassedOnlyIfEveryCasePassed ==
    (ec.pc = "done" /\ ec.ret[1].passed) =>
        /\ PassLines(ec.result[1]) = Len(ec.test_cases)
        /\ "fail" \notin KindsOf(ec.result[1])

(* C15: when an evaluate_coding call has returned, whatever the execution
   gave (success, failed cases, non-zero exit, timeout), the temporary script
   it wrote no longer exists; it exists from the write to the end of the
   execution. *)
C15_TempFileRemoved ==
    /\ ec.pc = "written" => ec.tmp_path
    /\ ec.pc = "done" => ~ec.tmp_path

(* a call that wrote its script and whose process was killed at the timeout *)
C15_Witness ==
    /\ ec.pc = "done"
    /\ ec.harness # <<>>
    /\ ec.result[1].timed_out
    /\ ~ec.tmp_path

=============================================================================
